---------------------------- MODULE Spec2Model ----------------------------
(***************************************************************************)
(* Model of the upload gateway of oaas-aws: the three upload pipelines of  *)
(* S3FileService (app/service.py) behind the endpoints of app/routers.py.  *)
(*                                                                         *)
(* Strings are sequences of characters, so that the path and file-name     *)
(* functions of the Python library (strip, split, basename, dirname,       *)
(* splitext, lower) are computed as the library computes them.  A literal  *)
(* of an f-string that no function ever looks into is one element of the   *)
(* sequence ("https://", "Error downloading ", ...).                       *)
(***************************************************************************)
EXTENDS Integers, Sequences, FiniteSets, TLC

(***************************************************************************)
(* Bounds of the model.                                                    *)
(***************************************************************************)
\* entries of an enumerated archive (Pipeline A, archive items of B)
MaxEntries == 2
\* image entries of a Pipeline B request
MaxImages == 3
\* image entries of a Pipeline B request that are declared archives
MaxZips == 1
\* products plus images of a Pipeline C request
MaxSize == 4
\* seconds the clock can advance during a run
MaxClock == 1
\* calls of the public writers on drawn inputs
MaxWrites == 2
\* key derivations applied to drawn inputs
MaxDerived == 2

(***************************************************************************)
(* Python string functions.                                                *)
(***************************************************************************)
\* s[a:b] with 1-based inclusive bounds; empty when a > b
Slice(s, a, b) == IF a > b THEN <<>> ELSE SubSeq(s, a, b)

\* str.rfind(c): the last index of character c in s, 0 when absent
rfind(s, c) ==
    LET hits == {k \in 1..Len(s) : s[k] = c}
    IN  IF hits = {} THEN 0 ELSE CHOOSE k \in hits : \A m \in hits : m <= k

\* str.find(c): the first index of character c in s, 0 when absent
find(s, c) ==
    LET hits == {k \in 1..Len(s) : s[k] = c}
    IN  IF hits = {} THEN 0 ELSE CHOOSE k \in hits : \A m \in hits : k <= m

endswith_Never(s, c) == FALSE

\* str.endswith(c) for a one-character suffix
endswith(s, c) == Len(s) > 0 /\ s[Len(s)] = c

\* str.strip(chars): drops leading and trailing characters that are in chars
strip(s, chars) ==
    LET keep == {k \in 1..Len(s) : s[k] \notin chars}
    IN  IF keep = {} THEN <<>>
        ELSE Slice(s, CHOOSE k \in keep : \A m \in keep : k <= m,
                      CHOOSE k \in keep : \A m \in keep : m <= k)

\* str.rstrip(chars)
rstrip(s, chars) ==
    LET keep == {k \in 1..Len(s) : s[k] \notin chars}
    IN  IF keep = {} THEN <<>>
        ELSE Slice(s, 1, CHOOSE k \in keep : \A m \in keep : m <= k)

\* s.split(c)[-1]: what follows the last c, the whole of s when c is absent
SplitLast(s, c) == Slice(s, rfind(s, c) + 1, Len(s))

\* s.split(c)[0]: what precedes the first c, the whole of s when c is absent
SplitFirst(s, c) == IF find(s, c) = 0 THEN s ELSE Slice(s, 1, find(s, c) - 1)

\* posixpath.basename: what follows the last "/"
basename(p) == Slice(p, rfind(p, "/") + 1, Len(p))

\* posixpath.dirname: what precedes the last "/", its trailing slashes
\* removed unless it consists of slashes only
dirname(p) ==
    LET head == Slice(p, 1, rfind(p, "/"))
    IN  IF head # <<>> /\ (\E k \in 1..Len(head) : head[k] # "/")
        THEN rstrip(head, {"/"}) ELSE head

\* genericpath._splitext on a name without "/": the extension starts at the
\* last dot, unless only dots precede that dot
SplitextAt(p) ==
    LET dotIndex == rfind(p, ".")
    IN  IF dotIndex > 0 /\ (\E k \in 1..(dotIndex - 1) : p[k] # ".")
        THEN dotIndex ELSE Len(p) + 1

\* os.path.splitext(p)[0]
splitext_root(p) == Slice(p, 1, SplitextAt(p) - 1)

\* os.path.splitext(p)[1]
splitext_ext(p) == Slice(p, SplitextAt(p), Len(p))

\* the upper-case letters that occur in the model's file names
LowerOf ==
    [c \in {"J", "P", "G", "N", "D", "F", "E"} |->
        CASE c = "J" -> "j" [] c = "P" -> "p" [] c = "G" -> "g"
          [] c = "N" -> "n" [] c = "D" -> "d" [] c = "F" -> "f"
          [] c = "E" -> "e"]

lower_Identity(s) == s

\* str.lower
lower(s) == [k \in 1..Len(s) |-> IF s[k] \in DOMAIN LowerOf THEN LowerOf[s[k]] ELSE s[k]]

(***************************************************************************)
(* InboundDocumentType (app/schemas.py).                                   *)
(***************************************************************************)
PDF == <<"application", "/", "pdf">>
IMAGE == <<"image", "/", "jpeg">>
ZIP == <<"application", "/", "zip">>
JSON == <<"application", "/", "json">>
PNG == <<"image", "/", "png">>
BINARY == <<"binary", "/", "octet-stream">>
InboundDocumentType == {PDF, IMAGE, ZIP, JSON, PNG, BINARY}

\* the table the archive branches look the lower-cased extension up in
ExtensionTable(file_ext) ==
    CASE file_ext = <<".", "p", "d", "f">> -> PDF
      [] file_ext = <<".", "j", "p", "g">> -> IMAGE
      [] file_ext = <<".", "j", "p", "e", "g">> -> IMAGE
      [] file_ext = <<".", "p", "n", "g">> -> PNG
      [] OTHER -> BINARY

(***************************************************************************)
(* Key derivation.                                                         *)
(***************************************************************************)
\* hashlib.sha256(...).hexdigest(): the digests of the model's user
\* identifiers, cut to their first six hexadecimal digits
_hash_string(input_string) ==
    CASE input_string = <<"9">> -> <<"1", "9", "5", "8", "1", "e">>
      [] input_string = <<"8">> -> <<"2", "c", "6", "2", "4", "2">>
      [] input_string = <<>> -> <<"e", "3", "b", "0", "c", "4">>

get_oaas_directory_NoUser(tenant, mobile_no, product_code) ==
    tenant \o <<"/">> \o _hash_string(<<>>) \o <<"/">> \o product_code

\* f"{tenant}/{hashed_mobile_no}/{product_code}"
get_oaas_directory(tenant, mobile_no, product_code) ==
    tenant \o <<"/">> \o _hash_string(mobile_no) \o <<"/">> \o product_code

_generate_key_NoStrip(directory, file_name) ==
    directory \o <<"/">> \o file_name

\* f"{directory.strip('/ ')}/{file_name}"
_generate_key(directory, file_name) ==
    strip(directory, {"/", " "}) \o <<"/">> \o file_name


(***************************************************************************)
(* Inputs: what a client can post and what the remote world answers.       *)
(***************************************************************************)
\* the two request slots of the process-wide service object
Reqs == {"r1", "r2"}

\* a field the posted body does not carry
Missing == <<"<missing>">>

\* tenant: str = 'placeorder'
DefaultTenant == <<"p", "l", "a", "c", "e", "o", "r", "d", "e", "r">>

Tenants == {Missing, <<>>}
MobileNos == {<<"9">>, Missing}

\* names of archive entries
ArchivePaths ==
    { <<"a", "/", "1", ".", "j", "p", "g">>,
      <<"a", "/", "2", ".", "P", "N", "G">>,
      <<"b", "/">>,
      <<"c", ".", "j", "p", "g">>,
      <<"x", "/", "a", "/", "1", ".", "j", "p", "g">>,
      <<"b", "/", "d">> }

\* the archive of the extraction example: a/1.jpg, a/2.png, b/, c.jpg
ExampleArchive ==
    << <<"a", "/", "1", ".", "j", "p", "g">>,
       <<"a", "/", "2", ".", "p", "n", "g">>,
       <<"b", "/">>,
       <<"c", ".", "j", "p", "g">> >>

SeqUpTo(S, n) == UNION {[1..k -> S] : k \in 0..n}

\* what a GET returns: bytes that are no archive, or an archive's name list
NotZip == [is_zip |-> FALSE, namelist |-> <<>>]
Archive(names) == [is_zip |-> TRUE, namelist |-> names]
Archives == {Archive(n) : n \in SeqUpTo(ArchivePaths, MaxEntries) \cup {ExampleArchive}}

Url(path) == <<"https://x">> \o path
\* urlparse(url).path
UrlPath(url) == Tail(url)

\* hashlib.sha1(url).hexdigest()[:8] of the one URL without a file name
sha1_8(url) == CASE url = Url(<<"/">>) -> <<"257a09f4">>

ZipFolderUrl == Url(<<"/", "f", ".", "z", "i", "p">>)

\* Image entries of Pipeline B: a declared kind, a URL, and what the URL serves
Images ==
    { [image_type |-> PNG, url |-> Url(<<"/", "i", ".", "j", "p", "g">>), content |-> NotZip],
      [image_type |-> IMAGE, url |-> Url(<<"/">>), content |-> NotZip],
      [image_type |-> ZIP, url |-> Url(<<"/", "n", ".", "z", "i", "p">>), content |-> NotZip],
      [image_type |-> ZIP, url |-> Url(<<"/", "a", ".", "z", "i", "p">>),
       content |-> Archive(<< <<"b", "/">>,
                              <<"a", "/", "1", ".", "j", "p", "g">>,
                              <<"c", ".", "P", "N", "G">> >>)] }

ImageLists ==
    {im \in SeqUpTo(Images, MaxImages) :
        Cardinality({k \in 1..Len(im) : im[k].image_type = ZIP}) <= MaxZips}

\* ImageBytes entries of Pipeline C: aGk= decodes, aGk is wrongly padded
ImageBytes ==
    { [image_name |-> <<"a", ".", "j", "p", "g">>, image_type |-> IMAGE,
       image_bytes |-> <<"a", "G", "k", "=">>],
      [image_name |-> <<"a", ".", "b", ".", "p", "n", "g">>, image_type |-> PNG,
       image_bytes |-> <<"a", "G", "k", "=">>],
      [image_name |-> <<"n">>, image_type |-> BINARY,
       image_bytes |-> <<"a", "G", "k">>] }

ProductCodes == {<<"P">>, <<>>}

\* the ProductBytes objects with exactly k images
ProductBytes(k) ==
    {[product_code |-> c, images |-> im] : c \in ProductCodes, im \in [1..k -> ImageBytes]}

\* the product lists whose products and images, counted together, are at most n
RECURSIVE ProductListsWithin(_)
ProductListsWithin(n) ==
    {<<>>} \cup
    UNION {{<<p>> \o rest : p \in ProductBytes(k), rest \in ProductListsWithin(n - 1 - k)} :
              k \in 0..(n - 1)}

ProductLists == ProductListsWithin(MaxSize)

NoZipFolder == [url |-> <<>>, content |-> NotZip]
NoProduct == [tmp_code |-> <<>>, images |-> <<>>]

\* OaasFolderRequest, OaasFileRequest and S3UploadFileBytesRequest as posted
Request(pipeline, tenant, mobile_no, zip_folder, product, products) ==
    [pipeline |-> pipeline, tenant |-> tenant, user |-> [mobile_no |-> mobile_no],
     zip_folder |-> zip_folder, product |-> product, products |-> products]

NoRequest == Request("none", Missing, Missing, NoZipFolder, NoProduct, <<>>)

OaasFolderRequests ==
    {Request("A", t, u, [url |-> ZipFolderUrl, content |-> c], NoProduct, <<>>) :
        t \in Tenants, u \in MobileNos, c \in Archives \cup {NotZip}}

OaasFileRequests ==
    {Request("B", t, u, NoZipFolder, [tmp_code |-> <<"P">>, images |-> im], <<>>) :
        t \in Tenants, u \in MobileNos, im \in ImageLists}

S3UploadFileBytesRequests ==
    {Request("C", t, u, NoZipFolder, NoProduct, ps) :
        t \in Tenants, u \in MobileNos, ps \in ProductLists}

\* LocationConstraint of get_bucket_location: None for us-east-1
NoRegion == <<>>
BucketLocations == {NoRegion, <<"ap-south-1">>}

\* str(e) of the failures of the collaborators
ClientErrorText == <<"404, message='Not Found'">>
TimeoutErrorText == <<"timed out">>
BadZipEntryText == <<"Bad CRC-32">>
S3ErrorText == <<"AccessDenied">>

(***************************************************************************)
(* State.                                                                  *)
(***************************************************************************)
VARIABLES
    request,          \* per slot: the posted body (NoRequest: slot unused)
    authorization,    \* per slot: the Authorization header of the request
    pc,               \* per slot: where the handler and its pipeline stand
    folder_urls,      \* per slot: the mapping under construction (result_urls in Pipeline C)
    frame,            \* per slot: the locals of the running pipeline
    response,         \* per slot: the HTTP answer of the endpoint
    http_gets,        \* per slot: the GETs issued, in order
    store,            \* the calls of save_file / upload_file_bytes, in order
    clock,            \* the second time.strftime last reported
    bucket_location,  \* what get_bucket_location answers for the bucket
    derived,          \* key derivations applied to drawn inputs (SpecKey)
    writes            \* calls of the public writers on drawn inputs (SpecWriter)

vars == <<request, authorization, pc, folder_urls, frame, response, http_gets, store, clock,
          bucket_location, derived, writes>>

\* self.bucket_name
bucket_name == <<"test-bucket">>

EmptyDict == <<>>
DictSet(d, k, v) == [x \in (DOMAIN d) \cup {k} |-> IF x = k THEN v ELSE d[x]]
DictAppend_Prepend(d, k, v) == [d EXCEPT ![k] = <<v>> \o @]
DictAppend_Drop(d, k, v) == d
DictAppend(d, k, v) == [d EXCEPT ![k] = Append(@, v)]

NoFrame ==
    [tenant |-> <<>>, i |-> 1, j |-> 1, zip_ref |-> <<>>, folder_files |-> <<>>,
     file_name |-> <<>>, timestamp |-> <<>>]

NoResponse == [status_code |-> 0, s3_urls |-> EmptyDict, detail |-> <<>>]
Ok200(urls) == [status_code |-> 200, s3_urls |-> urls, detail |-> <<>>]
Error(code, detail) == [status_code |-> code, s3_urls |-> EmptyDict, detail |-> detail]

\* time.strftime('%Y%m%d_%H%M%S') at second t of the run
strftime(t) == <<"20250101_12000", ToString(t)>>

\* the public URL save_file and upload_file_bytes return
S3Url(region, s3_key) ==
    IF region = NoRegion
    THEN <<"https://">> \o bucket_name \o <<".s3.amazonaws.com/">> \o s3_key
    ELSE <<"https://">> \o bucket_name \o <<".s3-">> \o region \o <<".amazonaws.com/">> \o s3_key

IsUrl(s) == Len(s) > 0 /\ s[1] = "https://"

\* one call of save_file / upload_file_bytes as the store sees it, with the
\* loop iteration (outer index, inner index) that made it
StoreCall(r, item, directory, file_name, content_type_str, ok) ==
    [req |-> r, item |-> item, key |-> _generate_key(directory, file_name),
     content_type |-> content_type_str, ok |-> ok]

\* one GET as the remote side sees it
HttpGet(item, url, ok) == [item |-> item, url |-> url, ok |-> ok]

\* base64.b64decode of a payload of alphabet characters: binascii.Error
\* ("Incorrect padding") unless its length is a multiple of four
b64decode_ok(image_bytes) == Len(image_bytes) % 4 = 0

(***************************************************************************)
(* Authentication (app/auth.py).                                           *)
(***************************************************************************)
JWT_SECRET_KEY == "secret"
SERVICE_ID == "oaas"

\* a token: whether it parses as a JWT, the key it was signed with, and its
\* sub claim ("none": the payload has no sub)
Token(wellformed, key, sub) == [wellformed |-> wellformed, key |-> key, sub |-> sub]
NoToken == Token(FALSE, "", "none")

\* the Authorization header: absent, or a scheme followed by a token
NoHeader == [present |-> FALSE, scheme |-> "", token |-> NoToken]
Header(scheme, token) == [present |-> TRUE, scheme |-> scheme, token |-> token]

ValidAuthorization == Header("Bearer ", Token(TRUE, JWT_SECRET_KEY, SERVICE_ID))

Authorizations ==
    { NoHeader,
      Header("", NoToken),
      Header("Basic ", Token(TRUE, JWT_SECRET_KEY, SERVICE_ID)),
      Header("Bearer ", NoToken),
      Header("Bearer ", Token(TRUE, "other", SERVICE_ID)),
      Header("Bearer ", Token(TRUE, JWT_SECRET_KEY, "none")),
      Header("Bearer ", Token(TRUE, JWT_SECRET_KEY, "intruder")),
      ValidAuthorization }

jwt_decode_NoVerify(token) ==
    IF ~token.wellformed THEN "DecodeError" ELSE "payload"

\* jwt.decode(token, JWT_SECRET_KEY, algorithms=[JWT_ALGORITHM])
jwt_decode(token) ==
    IF ~token.wellformed THEN "DecodeError"
    ELSE IF token.key # JWT_SECRET_KEY THEN "InvalidSignatureError"
    ELSE "payload"

\* get_current_user: TRUE when it returns the trace, FALSE when it raises
\* credentials_exception (an empty header, no "Bearer " to split at, a token
\* that does not decode, no sub, a sub that is not the service id)
get_current_user(header) ==
    /\ header.scheme # ""
    /\ header.scheme = "Bearer "
    /\ jwt_decode(header.token) = "payload"
    /\ header.token.sub # "none"
    /\ header.token.sub = SERVICE_ID

(***************************************************************************)
(* Endpoints: request validation and the start of the service call.        *)
(***************************************************************************)
Idle ==
    /\ pc = [r \in Reqs |-> "idle"]
    /\ folder_urls = [r \in Reqs |-> EmptyDict]
    /\ frame = [r \in Reqs |-> NoFrame]
    /\ response = [r \in Reqs |-> NoResponse]
    /\ http_gets = [r \in Reqs |-> <<>>]
    /\ store = <<>>
    /\ clock = 0
    /\ derived = <<>>
    /\ writes = <<>>

\* one request is posted, with a valid credential, to a service whose bucket
\* lies in the default region
Init ==
    /\ Idle
    /\ bucket_location = NoRegion
    /\ authorization = [r \in Reqs |-> IF r = "r1" THEN ValidAuthorization ELSE NoHeader]
    /\ \E q \in OaasFolderRequests \cup OaasFileRequests \cup S3UploadFileBytesRequests :
          request = [r \in Reqs |-> IF r = "r1" THEN q ELSE NoRequest]

FirstPc(pipeline) ==
    CASE pipeline = "A" -> "A_fetch" [] pipeline = "B" -> "B_loop" [] pipeline = "C" -> "C_loop"

Admit_Shared(r) ==
    /\ pc[r] = "idle"
    /\ request[r] # NoRequest
    /\ get_current_user(authorization[r])
    /\ request[r].user.mobile_no # Missing
    /\ pc' = [pc EXCEPT ![r] = FirstPc(request[r].pipeline)]
    /\ frame' = [frame EXCEPT ![r].tenant =
                    IF request[r].tenant = Missing THEN DefaultTenant ELSE request[r].tenant]
    /\ folder_urls' = [x \in Reqs |->
                          IF request[r].pipeline = "B"
                          THEN DictSet(EmptyDict, request[r].product.tmp_code, <<>>)
                          ELSE EmptyDict]
    /\ UNCHANGED <<request, authorization, response, http_gets, store, clock,
                   bucket_location, derived, writes>>

\* FastAPI resolves the endpoint's parameters: a request without the
\* Authorization header is answered 422; get_current_user then answers 401
\* for a credential it rejects; a body without user.mobile_no is answered 422
\* before the endpoint runs; a body without tenant gets the default.  The
\* endpoint then calls the service, which sets up its mapping.
Admit(r) ==
    /\ pc[r] = "idle"
    /\ request[r] # NoRequest
    /\ IF ~authorization[r].present
       THEN /\ pc' = [pc EXCEPT ![r] = "done"]
            /\ response' = [response EXCEPT ![r] = Error(422, <<"Field required">>)]
            /\ UNCHANGED <<folder_urls, frame>>
       ELSE IF ~get_current_user(authorization[r])
       THEN /\ pc' = [pc EXCEPT ![r] = "done"]
            /\ response' = [response EXCEPT ![r] = Error(401, <<"Invalid Token">>)]
            /\ UNCHANGED <<folder_urls, frame>>
       ELSE IF request[r].user.mobile_no = Missing
       THEN /\ pc' = [pc EXCEPT ![r] = "done"]
            /\ response' = [response EXCEPT ![r] = Error(422, <<"Field required">>)]
            /\ UNCHANGED <<folder_urls, frame>>
       ELSE /\ pc' = [pc EXCEPT ![r] = FirstPc(request[r].pipeline)]
            /\ frame' = [frame EXCEPT ![r].tenant =
                            IF request[r].tenant = Missing THEN DefaultTenant
                            ELSE request[r].tenant]
            /\ folder_urls' = [folder_urls EXCEPT ![r] =
                            IF request[r].pipeline = "B"
                            THEN DictSet(EmptyDict, request[r].product.tmp_code, <<>>)
                            ELSE EmptyDict]
            /\ UNCHANGED response
    /\ UNCHANGED <<request, authorization, http_gets, store, clock, bucket_location, derived, writes>>

(***************************************************************************)
(* Pipeline B: save_oaas_files.                                            *)
(***************************************************************************)
\* the file name of a non-archive item: the base name of the URL's path,
\* or image_<sha1>.<extension of the declared kind> when that is empty
FileNameFromUrl(image_item) ==
    LET file_name_from_url == basename(UrlPath(image_item.url))
        extension == SplitLast(image_item.image_type, "/")
    IN  IF file_name_from_url # <<>> THEN file_name_from_url
        ELSE <<"image_">> \o sha1_8(image_item.url) \o <<".">> \o
             (CASE extension = <<"octet-stream">> -> <<"bin">>
                [] extension = <<"jpeg">> -> <<"jpg">>
                [] OTHER -> extension)

BaseDirectory(r) ==
    get_oaas_directory(frame[r].tenant, request[r].user.mobile_no, request[r].product.tmp_code)

NextImage_Abort(f) == [f EXCEPT !.i = MaxImages + 2, !.j = 1, !.zip_ref = <<>>, !.file_name = <<>>]

NextImage_Skip(f) == [f EXCEPT !.i = @ + 2, !.j = 1, !.zip_ref = <<>>, !.file_name = <<>>]

NextImage_Retry(f) == [f EXCEPT !.j = 1, !.zip_ref = <<>>, !.file_name = <<>>]

\* the for loop moves to the next image entry
NextImage(f) == [f EXCEPT !.i = @ + 1, !.j = 1, !.zip_ref = <<>>, !.file_name = <<>>]

\* one iteration up to the end of the GET: the fetch, and for an entry
\* declared ZIP the opening of the archive.  The fetch fails with an
\* aiohttp.ClientError; the handler for any other exception is reached by the
\* failures of save_file (B_Save).
B_Fetch(r) ==
    /\ pc[r] = "B_loop"
    /\ frame[r].i <= Len(request[r].product.images)
    /\ LET image_item == request[r].product.images[frame[r].i]
           tmp_code == request[r].product.tmp_code
       IN  \E outcome \in {"ok", "ClientError"} :
             /\ http_gets' = [http_gets EXCEPT ![r] =
                                Append(@, HttpGet(frame[r].i, image_item.url, outcome = "ok"))]
             /\ CASE outcome = "ClientError" ->
                       /\ folder_urls' = [folder_urls EXCEPT ![r] = DictAppend(@, tmp_code,
                              <<"Error downloading ">> \o image_item.url \o <<": ">> \o ClientErrorText)]
                       /\ frame' = [frame EXCEPT ![r] = NextImage(@)]
                       /\ pc' = pc
                  [] outcome = "ok" /\ image_item.image_type = ZIP /\ ~image_item.content.is_zip ->
                       /\ folder_urls' = [folder_urls EXCEPT ![r] = DictAppend(@, tmp_code,
                              <<"Invalid ZIP file format: ">> \o image_item.url)]
                       /\ frame' = [frame EXCEPT ![r] = NextImage(@)]
                       /\ pc' = pc
                  [] outcome = "ok" /\ image_item.image_type = ZIP /\ image_item.content.is_zip ->
                       /\ folder_urls' = folder_urls
                       /\ IF image_item.content.namelist = <<>>
                          THEN /\ frame' = [frame EXCEPT ![r] = NextImage(@)]
                               /\ pc' = pc
                          ELSE /\ frame' = [frame EXCEPT ![r].j = 1,
                                                         ![r].zip_ref = image_item.content.namelist]
                               /\ pc' = [pc EXCEPT ![r] = "B_zip"]
                  [] OTHER ->
                       /\ folder_urls' = folder_urls
                       /\ frame' = [frame EXCEPT ![r].file_name = FileNameFromUrl(image_item)]
                       /\ pc' = [pc EXCEPT ![r] = "B_save"]
    /\ UNCHANGED <<request, authorization, response, store, clock, bucket_location, derived, writes>>

B_Save_Raise(r) ==
    /\ pc[r] = "B_save"
    /\ store' = Append(store, StoreCall(r, <<frame[r].i, 0>>, BaseDirectory(r), frame[r].file_name,
                                        request[r].product.images[frame[r].i].image_type, FALSE))
    /\ pc' = [pc EXCEPT ![r] = "done"]
    /\ response' = [response EXCEPT ![r] = Error(500, S3ErrorText)]
    /\ UNCHANGED <<request, authorization, folder_urls, frame, http_gets, clock,
                   bucket_location, derived, writes>>

\* the save_file call of a non-archive entry, written with its declared kind
B_Save(r) ==
    /\ pc[r] = "B_save"
    /\ LET image_item == request[r].product.images[frame[r].i]
           tmp_code == request[r].product.tmp_code
       IN  \E ok \in BOOLEAN :
             /\ store' = Append(store, StoreCall(r, <<frame[r].i, 0>>, BaseDirectory(r), frame[r].file_name,
                                                 image_item.image_type, ok))
             /\ folder_urls' = [folder_urls EXCEPT ![r] = DictAppend(@, tmp_code,
                    IF ok THEN S3Url(bucket_location, _generate_key(BaseDirectory(r), frame[r].file_name))
                    ELSE <<"Error processing ">> \o image_item.url \o <<": ">> \o S3ErrorText)]
    /\ frame' = [frame EXCEPT ![r] = NextImage(@)]
    /\ pc' = [pc EXCEPT ![r] = "B_loop"]
    /\ UNCHANGED <<request, authorization, response, http_gets, clock, bucket_location, derived, writes>>

\* one entry of the name list of an archive item: skipped, or read and saved
\* under its base name with the kind its extension gives
B_ZipEntry(r) ==
    /\ pc[r] = "B_zip"
    /\ LET file_path == frame[r].zip_ref[frame[r].j]
           tmp_code == request[r].product.tmp_code
           original_filename == basename(file_path)
           img_content_type == ExtensionTable(lower(splitext_ext(original_filename)))
       IN  IF endswith(file_path, "/")
           THEN UNCHANGED <<folder_urls, store>>
           ELSE \E outcome \in {"ok", "read_error", "save_error"} :
                  CASE outcome = "read_error" ->
                         /\ folder_urls' = [folder_urls EXCEPT ![r] = DictAppend(@, tmp_code,
                                <<"Error processing file ">> \o file_path \o <<" from ZIP: ">>
                                    \o BadZipEntryText)]
                         /\ store' = store
                    [] outcome # "read_error" /\ original_filename = <<>> ->
                         UNCHANGED <<folder_urls, store>>
                    [] OTHER ->
                         /\ store' = Append(store, StoreCall(r, <<frame[r].i, frame[r].j>>, BaseDirectory(r), original_filename,
                                                             img_content_type, outcome = "ok"))
                         /\ folder_urls' = [folder_urls EXCEPT ![r] = DictAppend(@, tmp_code,
                                IF outcome = "ok"
                                THEN S3Url(bucket_location, _generate_key(BaseDirectory(r), original_filename))
                                ELSE <<"Error processing file ">> \o file_path \o <<" from ZIP: ">>
                                         \o S3ErrorText)]
    /\ IF frame[r].j < Len(frame[r].zip_ref)
       THEN /\ frame' = [frame EXCEPT ![r].j = @ + 1]
            /\ pc' = pc
       ELSE /\ frame' = [frame EXCEPT ![r] = NextImage(@)]
            /\ pc' = [pc EXCEPT ![r] = "B_loop"]
    /\ UNCHANGED <<request, authorization, response, http_gets, clock, bucket_location, derived, writes>>

\* the loop is over: save_oaas_files returns and the endpoint answers 200
B_Return(r) ==
    /\ pc[r] = "B_loop"
    /\ frame[r].i > Len(request[r].product.images)
    /\ pc' = [pc EXCEPT ![r] = "done"]
    /\ response' = [response EXCEPT ![r] = Ok200(folder_urls[r])]
    /\ UNCHANGED <<request, authorization, folder_urls, frame, http_gets, store, clock, bucket_location, derived, writes>>

(***************************************************************************)
(* Pipeline A: save_oaas_folder.                                           *)
(***************************************************************************)
parent_folder_Outermost(file_path) == SplitFirst(dirname(file_path), "/")

\* os.path.dirname(file_path).split('/')[-1]
parent_folder(file_path) == SplitLast(dirname(file_path), "/")

\* folder_files after the first k names of the list: the dict as the
\* sequence of its items in insertion order
RECURSIVE GroupFiles(_, _)
GroupFiles(namelist, k) ==
    IF k = 0 THEN <<>>
    ELSE LET before == GroupFiles(namelist, k - 1)
             file_path == namelist[k]
             folder == parent_folder(file_path)
             at == {n \in 1..Len(before) : before[n].folder_name = folder}
         IN  IF endswith(file_path, "/") THEN before
             ELSE IF folder = <<>> THEN before
             ELSE IF at = {}
                  THEN Append(before, [folder_name |-> folder, files |-> <<file_path>>])
                  ELSE [before EXCEPT ![CHOOSE n \in at : TRUE].files = Append(@, file_path)]

A_Raise_Swallow(r, detail) ==
    /\ pc' = [pc EXCEPT ![r] = "done"]
    /\ response' = [response EXCEPT ![r] = Ok200(folder_urls[r])]
    /\ UNCHANGED <<folder_urls, frame>>

\* save_oaas_folder raises Exception(detail); the endpoint's except branch
\* answers HTTPException(500, detail=str(e))
A_Raise(r, detail) ==
    /\ pc' = [pc EXCEPT ![r] = "done"]
    /\ response' = [response EXCEPT ![r] = Error(500, detail)]
    /\ UNCHANGED <<folder_urls, frame>>

\* the GET of the archive and its opening; the entries are grouped by folder
A_Fetch(r) ==
    /\ pc[r] = "A_fetch"
    /\ \E outcome \in {"ok", "ClientError", "TimeoutError"} :
       /\ http_gets' = [http_gets EXCEPT ![r] =
                          Append(@, HttpGet(1, request[r].zip_folder.url, outcome = "ok"))]
       /\ CASE outcome = "ClientError" ->
                A_Raise(r, <<"Failed to fetch zip file: ">> \o ClientErrorText)
            [] outcome = "TimeoutError" ->
                 A_Raise(r, <<"Error processing zip file: ">> \o TimeoutErrorText)
           [] outcome = "ok" /\ ~request[r].zip_folder.content.is_zip ->
                A_Raise(r, <<"Invalid zip file format">>)
           [] OTHER ->
                LET namelist == request[r].zip_folder.content.namelist
                IN  /\ frame' = [frame EXCEPT ![r].i = 1, ![r].j = 1,
                                    ![r].folder_files = GroupFiles(namelist, Len(namelist))]
                    /\ pc' = [pc EXCEPT ![r] = "A_loop"]
                    /\ UNCHANGED <<folder_urls, response>>
    /\ UNCHANGED <<request, authorization, store, clock, bucket_location, derived, writes>>

\* name, "_", timestamp, ext
StampedName(original_filename, timestamp) ==
    splitext_root(original_filename) \o <<"_">> \o timestamp \o splitext_ext(original_filename)

OpenFolder_Reset(urls, folder_name, j) == DictSet(urls, folder_name, <<>>)

\* folder_urls[folder_name] = [] before the first file of a folder
OpenFolder(urls, folder_name, j) ==
    IF j = 1 THEN DictSet(urls, folder_name, <<>>) ELSE urls

\* one file of the current folder: read, renamed with the timestamp, saved
\* with the kind its extension gives; the folder's list is created when its
\* first file is reached
A_Entry(r) ==
    /\ pc[r] = "A_loop"
    /\ frame[r].i <= Len(frame[r].folder_files)
    /\ LET group == frame[r].folder_files[frame[r].i]
           folder_name == group.folder_name
           file_path == group.files[frame[r].j]
           opened == OpenFolder(folder_urls[r], folder_name, frame[r].j)
           folder_directory ==
               get_oaas_directory(frame[r].tenant, request[r].user.mobile_no, folder_name)
       IN  /\ \E outcome \in {"ok", "read_error", "save_error"} :
                IF outcome = "read_error"
                THEN /\ folder_urls' = [folder_urls EXCEPT ![r] = DictAppend(opened, folder_name,
                            <<"Error processing file ">> \o file_path \o <<": ">> \o BadZipEntryText)]
                     /\ UNCHANGED <<store, clock>>
                ELSE \E now \in clock..MaxClock :
                       LET file_name == StampedName(basename(file_path), strftime(now))
                           content_type == ExtensionTable(lower(splitext_ext(file_name)))
                       IN  /\ clock' = now
                           /\ store' = Append(store, StoreCall(r, <<frame[r].i, frame[r].j>>, folder_directory, file_name,
                                                               content_type, outcome = "ok"))
                           /\ folder_urls' = [folder_urls EXCEPT ![r] = DictAppend(opened, folder_name,
                                  IF outcome = "ok"
                                  THEN S3Url(bucket_location, _generate_key(folder_directory, file_name))
                                  ELSE <<"Error processing file ">> \o file_path \o <<": ">> \o S3ErrorText)]
           /\ frame' = [frame EXCEPT ![r] =
                           IF @.j < Len(group.files) THEN [@ EXCEPT !.j = @ + 1]
                           ELSE [@ EXCEPT !.i = @ + 1, !.j = 1]]
    /\ UNCHANGED <<request, authorization, pc, response, http_gets, bucket_location, derived, writes>>

\* every folder is done: save_oaas_folder returns and the endpoint answers 200
A_Return(r) ==
    /\ pc[r] = "A_loop"
    /\ frame[r].i > Len(frame[r].folder_files)
    /\ pc' = [pc EXCEPT ![r] = "done"]
    /\ response' = [response EXCEPT ![r] = Ok200(folder_urls[r])]
    /\ UNCHANGED <<request, authorization, folder_urls, frame, http_gets, store, clock, bucket_location, derived, writes>>

(***************************************************************************)
(* Pipeline C: upload_product_bytes.                                       *)
(***************************************************************************)
\* f"{image_name.split('.')[0]}_{timestamp}.{image_name.split('.')[-1]}"
BytesImageName(image_name, timestamp) ==
    SplitFirst(image_name, ".") \o <<"_">> \o timestamp \o <<".">> \o SplitLast(image_name, ".")

\* the head of one product iteration: its list is set to [] and the
\* timestamp of the batch is taken
C_Product(r) ==
    /\ pc[r] = "C_loop"
    /\ frame[r].i <= Len(request[r].products)
    /\ LET product == request[r].products[frame[r].i]
       IN  /\ folder_urls' = [folder_urls EXCEPT ![r] = DictSet(@, product.product_code, <<>>)]
           /\ \E now \in clock..MaxClock :
                /\ clock' = now
                /\ frame' = [frame EXCEPT ![r] =
                                IF product.images = <<>>
                                THEN [@ EXCEPT !.i = @ + 1, !.j = 1, !.timestamp = strftime(now)]
                                ELSE [@ EXCEPT !.j = 1, !.timestamp = strftime(now)]]
           /\ pc' = [pc EXCEPT ![r] = IF product.images = <<>> THEN "C_loop" ELSE "C_images"]
    /\ UNCHANGED <<request, authorization, response, http_gets, store, bucket_location, derived, writes>>

\* one image of the current product: decoded and uploaded; a failure is
\* printed and the image is passed over
C_Image(r) ==
    /\ pc[r] = "C_images"
    /\ LET product == request[r].products[frame[r].i]
           product_code == product.product_code
           image == product.images[frame[r].j]
           base_directory ==
               get_oaas_directory(frame[r].tenant, request[r].user.mobile_no, product_code)
           image_name == BytesImageName(image.image_name, frame[r].timestamp)
       IN  /\ IF ~b64decode_ok(image.image_bytes)
              THEN UNCHANGED <<folder_urls, store>>
              ELSE \E ok \in BOOLEAN :
                     /\ store' = Append(store, StoreCall(r, <<frame[r].i, frame[r].j>>, base_directory, image_name,
                                                         image.image_type, ok))
                     /\ folder_urls' =
                            IF ok
                            THEN [folder_urls EXCEPT ![r] = DictAppend(@, product_code,
                                     S3Url(bucket_location, _generate_key(base_directory, image_name)))]
                            ELSE folder_urls
           /\ IF frame[r].j < Len(product.images)
              THEN /\ frame' = [frame EXCEPT ![r].j = @ + 1]
                   /\ pc' = pc
              ELSE /\ frame' = [frame EXCEPT ![r].i = @ + 1, ![r].j = 1]
                   /\ pc' = [pc EXCEPT ![r] = "C_loop"]
    /\ UNCHANGED <<request, authorization, response, http_gets, clock, bucket_location, derived, writes>>

\* every product is done: upload_product_bytes returns and the endpoint answers 200
C_Return(r) ==
    /\ pc[r] = "C_loop"
    /\ frame[r].i > Len(request[r].products)
    /\ pc' = [pc EXCEPT ![r] = "done"]
    /\ response' = [response EXCEPT ![r] = Ok200(folder_urls[r])]
    /\ UNCHANGED <<request, authorization, folder_urls, frame, http_gets, store, clock, bucket_location, derived, writes>>

(***************************************************************************)
(* Key derivation applied to drawn inputs.                                 *)
(***************************************************************************)
KeyTenants == {<<"t">>, <<"/", "t">>, <<>>}
KeyMobileNos == {<<"9">>, <<"8">>, <<>>}
KeyGroups == {<<"P">>, <<"a", " ">>, <<>>}
KeyFileNames == {<<"1", ".", "j", "p", "g">>, <<"d">>}

\* nothing is posted; the bucket lies in any region
InitKey ==
    /\ Idle
    /\ bucket_location \in BucketLocations
    /\ request = [r \in Reqs |-> NoRequest]
    /\ authorization = [r \in Reqs |-> NoHeader]

\* save_file up to its key: the directory of get_oaas_directory and the key
\* of _generate_key for one drawn (tenant, user, group, file name)
Derive ==
    /\ Len(derived) < MaxDerived
    /\ \E t \in KeyTenants, u \in KeyMobileNos, g \in KeyGroups, f \in KeyFileNames :
         derived' = Append(derived,
             [tenant |-> t, mobile_no |-> u, group |-> g, file_name |-> f,
              key |-> _generate_key(get_oaas_directory(t, u, g), f)])
    /\ UNCHANGED <<request, authorization, pc, folder_urls, frame, response, http_gets, store, clock,
                   bucket_location, writes>>

NextKey == Derive

SpecKey == InitKey /\ [][NextKey]_vars

(***************************************************************************)
(* The public writers of the service, called on drawn inputs.              *)
(***************************************************************************)
\* what a writer call leaves behind: the key, the ExtraArgs, whether
\* upload_fileobj was called, and the URL it returns or the exception that
\* leaves it
NoUrl == <<>>
NoError == <<>>
LocationErrorText == <<"NoSuchBucket">>

WriterResult(s3_key, extra_args, outcome, s3_url) ==
    [s3_key |-> s3_key,
     extra_args |-> extra_args,
     uploaded |-> outcome # "LocationError",
     returned |-> IF outcome = "ok" THEN s3_url ELSE NoUrl,
     raised |-> CASE outcome = "ok" -> NoError
                  [] outcome = "LocationError" -> LocationErrorText
                  [] outcome = "UploadError" -> S3ErrorText]

\* extra_args = {}; if content_type_str: extra_args['ContentType'] = content_type_str
ExtraArgs(content_type_str) ==
    IF content_type_str = <<>> THEN <<>> ELSE [ContentType |-> content_type_str]

save_file_Swallow(directory, file_name, content_type_str, region, outcome) ==
    WriterResult(_generate_key(directory, file_name), ExtraArgs(content_type_str), "ok",
                 S3Url(region, _generate_key(directory, file_name)))

\* save_file: no handler stands between the client calls and the caller
save_file(directory, file_name, content_type_str, region, outcome) ==
    WriterResult(_generate_key(directory, file_name), ExtraArgs(content_type_str), outcome,
                 S3Url(region, _generate_key(directory, file_name)))

\* upload_file_bytes: the same with the bytes wrapped in a stream
upload_file_bytes(directory, file_name, content_type_str, region, outcome) ==
    WriterResult(_generate_key(directory, file_name), ExtraArgs(content_type_str), outcome,
                 S3Url(region, _generate_key(directory, file_name)))

\* str(x) of a LocationConstraint inside an f-string
FormatRegion(region) == IF region = NoRegion THEN <<"None">> ELSE region

\* save_file_with_content_type: public-read ACL, and the region always
\* formatted into the host name
save_file_with_content_type(directory, file_name, content_type, region, outcome) ==
    WriterResult(_generate_key(directory, file_name),
                 [ACL |-> <<"public-read">>, ContentType |-> content_type], outcome,
                 <<"https://">> \o bucket_name \o <<".s3-">> \o FormatRegion(region)
                     \o <<".amazonaws.com/">> \o _generate_key(directory, file_name))

WriterDirectories == {<<"t", "/", "P">>, <<"/", "d", " ">>}
WriterFileNames == {<<"1", ".", "j", "p", "g">>}
WriterOutcomes == {"ok", "LocationError", "UploadError"}

\* nothing is posted; the bucket lies in any region
InitWriter ==
    /\ Idle
    /\ bucket_location \in BucketLocations
    /\ request = [r \in Reqs |-> NoRequest]
    /\ authorization = [r \in Reqs |-> NoHeader]

Written(writer, directory, file_name, outcome, out) ==
    /\ writes' = Append(writes, [writer |-> writer, directory |-> directory,
                                 file_name |-> file_name, region |-> bucket_location,
                                 backend |-> outcome, out |-> out])
    /\ UNCHANGED <<request, authorization, pc, folder_urls, frame, response, http_gets, store, clock,
                   bucket_location, derived>>

SaveFile ==
    /\ Len(writes) < MaxWrites
    /\ \E d \in WriterDirectories, f \in WriterFileNames, c \in {<<>>, IMAGE},
          outcome \in WriterOutcomes :
          Written("save_file", d, f, outcome, save_file(d, f, c, bucket_location, outcome))

UploadFileBytes ==
    /\ Len(writes) < MaxWrites
    /\ \E d \in WriterDirectories, f \in WriterFileNames, c \in {<<>>, IMAGE},
          outcome \in WriterOutcomes :
          Written("upload_file_bytes", d, f, outcome, upload_file_bytes(d, f, c, bucket_location, outcome))

SaveFileWithContentType ==
    /\ Len(writes) < MaxWrites
    /\ \E d \in WriterDirectories, f \in WriterFileNames, c \in {PDF, IMAGE},
          outcome \in WriterOutcomes :
          Written("save_file_with_content_type", d, f, outcome,
                  save_file_with_content_type(d, f, c, bucket_location, outcome))

NextWriter == SaveFile \/ UploadFileBytes \/ SaveFileWithContentType

SpecWriter == InitWriter /\ [][NextWriter]_vars

Next ==
    \E r \in Reqs :
        \/ Admit(r)
        \/ B_Fetch(r)
        \/ B_Save(r)
        \/ B_ZipEntry(r)
        \/ B_Return(r)
        \/ A_Fetch(r)
        \/ A_Entry(r)
        \/ A_Return(r)
        \/ C_Product(r)
        \/ C_Image(r)
        \/ C_Return(r)

Spec == Init /\ [][Next]_vars

\* one small request is posted with any credential
SmallRequests ==
    {q \in OaasFolderRequests \cup OaasFileRequests \cup S3UploadFileBytesRequests :
        /\ q.tenant = Missing
        /\ Len(q.zip_folder.content.namelist) <= 1
        /\ Len(q.product.images) <= 1
        /\ Len(q.products) <= 1
        /\ \A p \in 1..Len(q.products) : Len(q.products[p].images) <= 1}

InitAuth ==
    /\ Idle
    /\ bucket_location = NoRegion
    /\ \E q \in SmallRequests, a \in Authorizations :
          /\ request = [r \in Reqs |-> IF r = "r1" THEN q ELSE NoRequest]
          /\ authorization = [r \in Reqs |-> IF r = "r1" THEN a ELSE NoHeader]

SpecAuth == InitAuth /\ [][Next]_vars

\* two small requests are in flight on the one service object
InitPair ==
    /\ Idle
    /\ bucket_location = NoRegion
    /\ authorization = [r \in Reqs |-> ValidAuthorization]
    /\ \E q1, q2 \in {q \in SmallRequests : q.user.mobile_no # Missing} :
          request = [r \in Reqs |-> IF r = "r1" THEN q1 ELSE q2]

SpecPair == InitPair /\ [][Next]_vars

(***************************************************************************)
(* What the logs tell about a finished request.                            *)
(***************************************************************************)
Finished(r) == pc[r] = "done"
Returned(r) == Finished(r) /\ response[r].status_code = 200
Runs(r, pipeline) == request[r].pipeline = pipeline /\ request[r].user.mobile_no # Missing

\* the GET of outer item i was issued / came back with a body
Fetched(r, i) == \E k \in 1..Len(http_gets[r]) : http_gets[r][k].item = i
FetchedOk(r, i) ==
    \E k \in 1..Len(http_gets[r]) : http_gets[r][k].item = i /\ http_gets[r][k].ok

\* the store calls made for one loop iteration
CallsOf(r, item) == {k \in 1..Len(store) : store[k].req = r /\ store[k].item = item}
Called(r, item) == CallsOf(r, item) # {}
Stored(r, item) == \E k \in CallsOf(r, item) : store[k].ok

(***************************************************************************)
(* C1  Pipeline B never aborts early.  For a request whose n image entries *)
(* are all non-archive, save_oaas_files returns (HTTP 200) a mapping with  *)
(* the single key tmp_code whose list has n entries; every entry was       *)
(* fetched; entry i is a URL when item i was fetched and stored, and a     *)
(* non-empty error string when its fetch or its store write failed.        *)
(***************************************************************************)
NoArchiveItems(r) ==
    \A i \in 1..Len(request[r].product.images) : request[r].product.images[i].image_type # ZIP

C1_NoEarlyAbort ==
    \A r \in Reqs :
        (Runs(r, "B") /\ NoArchiveItems(r) /\ Finished(r)) =>
            LET n == Len(request[r].product.images)
                tmp_code == request[r].product.tmp_code
                urls == response[r].s3_urls
            IN  /\ response[r].status_code = 200
                /\ DOMAIN urls = {tmp_code}
                /\ Len(urls[tmp_code]) = n
                /\ \A i \in 1..n :
                      /\ Fetched(r, i)
                      /\ IF FetchedOk(r, i) /\ Stored(r, <<i, 0>>)
                         THEN IsUrl(urls[tmp_code][i])
                         ELSE ~IsUrl(urls[tmp_code][i]) /\ Len(urls[tmp_code][i]) > 0

\* three image URLs, the second fetch fails, the first and third are stored
C1_Witness ==
    \E r \in Reqs :
        /\ Runs(r, "B") /\ NoArchiveItems(r) /\ Returned(r)
        /\ Len(request[r].product.images) = 3
        /\ FetchedOk(r, 1) /\ ~FetchedOk(r, 2) /\ FetchedOk(r, 3)
        /\ Stored(r, <<1, 0>>) /\ Stored(r, <<3, 0>>)
        /\ Len(response[r].s3_urls[request[r].product.tmp_code]) = 3
        /\ ~IsUrl(response[r].s3_urls[request[r].product.tmp_code][2])

(***************************************************************************)
(* The items a pipeline attempts for a group.                              *)
(***************************************************************************)
\* Pipeline A: the files of the archive whose innermost folder is g
FolderItems(r, g) ==
    LET namelist == request[r].zip_folder.content.namelist
    IN  {k \in 1..Len(namelist) :
            ~endswith(namelist[k], "/") /\ parent_folder(namelist[k]) = g}

\* Pipeline B: what image entry i stands for: itself, or, when it is a valid
\* archive that was fetched, the files the archive contains
ContainedFiles(namelist) ==
    {j \in 1..Len(namelist) : ~endswith(namelist[j], "/") /\ basename(namelist[j]) # <<>>}

ItemsOfImage(r, i) ==
    LET image_item == request[r].product.images[i]
    IN  IF FetchedOk(r, i) /\ image_item.image_type = ZIP /\ image_item.content.is_zip
        THEN Cardinality(ContainedFiles(image_item.content.namelist))
        ELSE 1

RECURSIVE ItemsOfImages(_, _)
ItemsOfImages(r, n) == IF n = 0 THEN 0 ELSE ItemsOfImages(r, n - 1) + ItemsOfImage(r, n)

\* Pipeline C: the images declared under a code, and those of them stored
StoredOfCode(r, code) ==
    {item \in (1..Len(request[r].products)) \X (1..MaxSize) :
        /\ request[r].products[item[1]].product_code = code
        /\ item[2] <= Len(request[r].products[item[1]].images)
        /\ Stored(r, item)}

ImagesOfCode(r, code) ==
    LET products == request[r].products
        Count[n \in 0..Len(products)] ==
            IF n = 0 THEN 0
            ELSE Count[n - 1] + (IF products[n].product_code = code
                                 THEN Len(products[n].images) ELSE 0)
    IN  Count[Len(products)]

\* one entry per attempted item in the lists of Pipelines A and B
OneEntryPerItemAB(r) ==
    /\ Runs(r, "A") =>
          \A g \in DOMAIN response[r].s3_urls :
              Len(response[r].s3_urls[g]) = Cardinality(FolderItems(r, g))
    /\ Runs(r, "B") =>
          \A g \in DOMAIN response[r].s3_urls :
              Len(response[r].s3_urls[g]) = ItemsOfImages(r, Len(request[r].product.images))

(***************************************************************************)
(* C2 as stated: in every returned mapping of every pipeline, each group's *)
(* list has exactly one entry per item attempted for the group.  Pipeline  *)
(* C refutes it: an image that fails to decode or to upload leaves none.   *)
(***************************************************************************)
C2_Original ==
    \A r \in Reqs :
        Returned(r) =>
            /\ OneEntryPerItemAB(r)
            /\ Runs(r, "C") =>
                  \A g \in DOMAIN response[r].s3_urls :
                      Len(response[r].s3_urls[g]) = ImagesOfCode(r, g)

(***************************************************************************)
(* C2 amended: in every returned mapping of Pipelines A and B each group's *)
(* list has exactly one entry per item attempted for the group; in         *)
(* Pipeline C the list of a product code holds URLs only, at most one per  *)
(* stored image of that code, and none for an image whose decode or store  *)
(* write failed.                                                           *)
(***************************************************************************)
C2_OneEntryPerItem ==
    \A r \in Reqs :
        Returned(r) =>
            /\ OneEntryPerItemAB(r)
            /\ Runs(r, "C") =>
                  \A g \in DOMAIN response[r].s3_urls :
                      LET list == response[r].s3_urls[g]
                      IN  /\ Len(list) <= Cardinality(StoredOfCode(r, g))
                          /\ \A n \in 1..Len(list) :
                                /\ IsUrl(list[n])
                                /\ \E item \in StoredOfCode(r, g) :
                                      \E k \in CallsOf(r, item) :
                                          list[n] = S3Url(bucket_location, store[k].key)

\* Pipeline C returned a list of one URL for a product of two images, one of
\* them not stored; Pipelines A and B are covered by C6_Witness and C1_Witness
C2_Witness ==
    \E r \in Reqs :
        /\ Runs(r, "C") /\ Returned(r)
        /\ Len(request[r].products) = 1
        /\ Len(request[r].products[1].images) = 2
        /\ Stored(r, <<1, 1>>) /\ ~Stored(r, <<1, 2>>)
        /\ Len(response[r].s3_urls[request[r].products[1].product_code]) = 1

(***************************************************************************)
(* The entry an item leaves in its group's list, told from the logs: the   *)
(* URL of the key its store call wrote, or a message that names the item.  *)
(***************************************************************************)
CallOf(r, item) == store[CHOOSE k \in CallsOf(r, item) : TRUE]

EntryOf(r, item, what, name, from) ==
    IF Stored(r, item) THEN S3Url(bucket_location, CallOf(r, item).key)
    ELSE <<what>> \o name \o <<from>> \o
         (IF Called(r, item) THEN S3ErrorText ELSE BadZipEntryText)

\* Pipeline A: the folders of the archive, the n-th folder in the order of
\* first appearance, and the entries of folder g in archive order
Folders(r) ==
    LET namelist == request[r].zip_folder.content.namelist
    IN  {parent_folder(namelist[k]) :
            k \in {m \in 1..Len(namelist) :
                      ~endswith(namelist[m], "/") /\ parent_folder(namelist[m]) # <<>>}}

Least(S) == CHOOSE k \in S : \A m \in S : k <= m

FolderRank(r, g) ==
    Cardinality({h \in Folders(r) : Least(FolderItems(r, h)) <= Least(FolderItems(r, g))})

EntriesOfFolder(r, g) ==
    LET namelist == request[r].zip_folder.content.namelist
        Upto[k \in 0..Len(namelist)] ==
            IF k = 0 THEN <<>>
            ELSE IF k \notin FolderItems(r, g) THEN Upto[k - 1]
            ELSE Append(Upto[k - 1],
                        EntryOf(r, <<FolderRank(r, g),
                                     Cardinality({m \in FolderItems(r, g) : m <= k})>>,
                                "Error processing file ", namelist[k], ": "))
    IN  Upto[Len(namelist)]

\* Pipeline B: the entries of image entry i, and of the images up to the n-th
EntriesOfArchive(r, i) ==
    LET namelist == request[r].product.images[i].content.namelist
        Upto[j \in 0..Len(namelist)] ==
            IF j = 0 THEN <<>>
            ELSE IF j \notin ContainedFiles(namelist) THEN Upto[j - 1]
            ELSE Append(Upto[j - 1],
                        EntryOf(r, <<i, j>>, "Error processing file ", namelist[j],
                                " from ZIP: "))
    IN  Upto[Len(namelist)]

EntriesOfImage(r, i) ==
    LET image_item == request[r].product.images[i]
    IN  IF ~FetchedOk(r, i)
        THEN << <<"Error downloading ">> \o image_item.url \o <<": ">> \o ClientErrorText >>
        ELSE IF image_item.image_type # ZIP
        THEN << EntryOf(r, <<i, 0>>, "Error processing ", image_item.url, ": ") >>
        ELSE IF ~image_item.content.is_zip
        THEN << <<"Invalid ZIP file format: ">> \o image_item.url >>
        ELSE EntriesOfArchive(r, i)

EntriesOfImages(r) ==
    LET images == request[r].product.images
        Upto[i \in 0..Len(images)] ==
            IF i = 0 THEN <<>> ELSE Upto[i - 1] \o EntriesOfImage(r, i)
    IN  Upto[Len(images)]

\* Pipeline C: the URLs of the stored images of product p, in declared order
EntriesOfProduct(r, p) ==
    LET images == request[r].products[p].images
        Upto[j \in 0..Len(images)] ==
            IF j = 0 THEN <<>>
            ELSE IF ~Stored(r, <<p, j>>) THEN Upto[j - 1]
            ELSE Append(Upto[j - 1], S3Url(bucket_location, CallOf(r, <<p, j>>).key))
    IN  Upto[Len(images)]

\* the URLs of the stored images of the products with a code, in declared order
StoredUrlsOfCode(r, code) ==
    LET products == request[r].products
        Upto[p \in 0..Len(products)] ==
            IF p = 0 THEN <<>>
            ELSE IF products[p].product_code # code THEN Upto[p - 1]
            ELSE Upto[p - 1] \o EntriesOfProduct(r, p)
    IN  Upto[Len(products)]

\* s is t with some of its elements left out
RECURSIVE IsSubSeq(_, _)
IsSubSeq(s, t) ==
    IF s = <<>> THEN TRUE
    ELSE IF t = <<>> THEN FALSE
    ELSE IF Head(s) = Head(t) THEN IsSubSeq(Tail(s), Tail(t))
    ELSE IsSubSeq(s, Tail(t))

(***************************************************************************)
(* C3  The entries of each group's list stand in input order: the list of  *)
(* a returned mapping of Pipeline A or B is the sequence of the entries    *)
(* its items left, taken in the order the items appear in the archive or   *)
(* were declared, whatever mix of successes and failures occurred; the     *)
(* list of a product code of Pipeline C holds URLs of its stored images in *)
(* the order the images were declared.                                     *)
(***************************************************************************)
C3_InputOrder ==
    \A r \in Reqs :
        Returned(r) =>
            \A g \in DOMAIN response[r].s3_urls :
                CASE Runs(r, "A") -> response[r].s3_urls[g] = EntriesOfFolder(r, g)
                  [] Runs(r, "B") -> response[r].s3_urls[g] = EntriesOfImages(r)
                  [] Runs(r, "C") ->
                        IsSubSeq(response[r].s3_urls[g], StoredUrlsOfCode(r, g))

\* a list that holds a failure before a success, and one that holds two
\* different URLs
C3_Witness ==
    \E r \in Reqs :
        /\ Returned(r)
        /\ \E g \in DOMAIN response[r].s3_urls :
              LET list == response[r].s3_urls[g]
              IN  /\ Len(list) >= 2
                  /\ ~IsUrl(list[1]) /\ IsUrl(list[2])
        /\ Runs(r, "B")
        /\ Len(request[r].product.images) = 2
        /\ request[r].product.images[1].url # request[r].product.images[2].url

(***************************************************************************)
(* C4  Pipeline A is request-fatal on its first step: when the GET of the  *)
(* archive fails or the body is no ZIP archive, save_oaas_folder raises,   *)
(* the endpoint answers HTTP 500 with the failure message as detail and    *)
(* without any mapping, and no store call is ever made for the request.    *)
(***************************************************************************)
ArchiveUnusable(r) ==
    /\ Fetched(r, 1)
    /\ ~FetchedOk(r, 1) \/ ~request[r].zip_folder.content.is_zip

C4_FatalFirstStep ==
    \A r \in Reqs :
        (Runs(r, "A") /\ ArchiveUnusable(r)) =>
            /\ Finished(r)
            /\ response[r].status_code = 500
            /\ response[r].s3_urls = EmptyDict
            /\ folder_urls[r] = EmptyDict
            /\ IF FetchedOk(r, 1)
               THEN response[r].detail = <<"Invalid zip file format">>
               ELSE response[r].detail \in
                       { <<"Failed to fetch zip file: ">> \o ClientErrorText,
                         <<"Error processing zip file: ">> \o TimeoutErrorText }
            /\ \A k \in 1..Len(store) : store[k].req # r

\* the archive URL resolved to bytes that are no ZIP archive
C4_Witness ==
    \E r \in Reqs :
        /\ Runs(r, "A") /\ Finished(r)
        /\ FetchedOk(r, 1) /\ ~request[r].zip_folder.content.is_zip
        /\ response[r].status_code = 500

(***************************************************************************)
(* C5  Pipeline A groups the archive entries by their innermost folder:    *)
(* directory entries and root-level entries belong to no group, every      *)
(* other entry to the one group named by the path segment right before its *)
(* file name, and the keys of the returned mapping are exactly the folder  *)
(* names so found.                                                         *)
(***************************************************************************)
\* the segments of a path: what stands between its slashes
Segments(path) ==
    LET cuts == {0} \cup {k \in 1..Len(path) : path[k] = "/"} \cup {Len(path) + 1}
    IN  {<<a, b>> \in cuts \X cuts : a < b /\ \A c \in cuts : ~(a < c /\ c < b)}

\* the segment right before the file name, <<>> for an entry at the root
SegmentBeforeName(path) ==
    LET last == rfind(path, "/")
        before == {seg \in Segments(path) : seg[2] = last}
    IN  IF last = 0 THEN <<>>
        ELSE LET seg == CHOOSE x \in before : TRUE IN Slice(path, seg[1] + 1, seg[2] - 1)

GroupedEntries(namelist, g) ==
    {k \in 1..Len(namelist) :
        ~endswith(namelist[k], "/") /\ SegmentBeforeName(namelist[k]) = g}

C5_GroupByInnermostFolder ==
    \A r \in Reqs :
        (Runs(r, "A") /\ Returned(r)) =>
            LET namelist == request[r].zip_folder.content.namelist
                urls == response[r].s3_urls
            IN  /\ DOMAIN urls =
                       {SegmentBeforeName(namelist[k]) :
                           k \in {m \in 1..Len(namelist) :
                                     /\ ~endswith(namelist[m], "/")
                                     /\ SegmentBeforeName(namelist[m]) # <<>>}}
                /\ \A g \in DOMAIN urls :
                      Len(urls[g]) = Cardinality(GroupedEntries(namelist, g))
                /\ \A k \in 1..Len(namelist) :
                      (endswith(namelist[k], "/") \/ rfind(namelist[k], "/") = 0) =>
                          \A g \in DOMAIN urls : k \notin GroupedEntries(namelist, g)

\* a/1.jpg, a/2.png, b/, c.jpg give the single group a with two entries
C5_Witness ==
    \E r \in Reqs :
        /\ Runs(r, "A") /\ Returned(r)
        /\ request[r].zip_folder.content.namelist = ExampleArchive
        /\ DOMAIN response[r].s3_urls = {<<"a">>}
        /\ Len(response[r].s3_urls[<<"a">>]) = 2

(***************************************************************************)
(* C6  In Pipeline A, once the archive is open, no failure of an entry is  *)
(* fatal: the call returns (HTTP 200) a mapping whose keys are all the     *)
(* folders of the archive, each list has as many entries as the folder has *)
(* files, and exactly the entries of the files that could not be read or   *)
(* stored are error strings.                                               *)
(***************************************************************************)
C6_EntryFailureNotFatal ==
    \A r \in Reqs :
        (Runs(r, "A") /\ Finished(r) /\ ~ArchiveUnusable(r)) =>
            /\ response[r].status_code = 200
            /\ DOMAIN response[r].s3_urls = Folders(r)
            /\ \A g \in Folders(r) :
                  LET list == response[r].s3_urls[g]
                      files == FolderItems(r, g)
                      failed == {j \in 1..Cardinality(files) :
                                    ~Stored(r, <<FolderRank(r, g), j>>)}
                  IN  /\ Len(list) = Cardinality(files)
                      /\ \A j \in 1..Len(list) :
                            IF j \in failed
                            THEN ~IsUrl(list[j]) /\ Len(list[j]) > 0
                            ELSE IsUrl(list[j])

\* two folders; the first entry of the first folder failed, and the entries
\* after it, in the same and in the next folder, were stored
C6_Witness ==
    \E r \in Reqs :
        /\ Runs(r, "A") /\ Returned(r)
        /\ Cardinality(Folders(r)) = 2
        /\ ~Stored(r, <<1, 1>>)
        /\ Stored(r, <<2, 1>>)
        /\ \A g \in Folders(r) : Len(response[r].s3_urls[g]) = Cardinality(FolderItems(r, g))

(***************************************************************************)
(* C7  Pipeline C returns a mapping in which every product code of the     *)
(* request is a key; a failed image is passed over without an entry, so    *)
(* the list of a product code holds exactly the URLs of the stored images  *)
(* of the products with that code, and is empty when none was stored.      *)
(* Refuted: a second product with the same code resets the list (C20).     *)
(***************************************************************************)
C7_StoredImagesListed ==
    \A r \in Reqs :
        (Runs(r, "C") /\ Finished(r)) =>
            /\ response[r].status_code = 200
            /\ DOMAIN response[r].s3_urls =
                   {request[r].products[p].product_code : p \in 1..Len(request[r].products)}
            /\ \A code \in DOMAIN response[r].s3_urls :
                  response[r].s3_urls[code] = StoredUrlsOfCode(r, code)

(***************************************************************************)
(* Key derivation as the claims put it.                                    *)
(***************************************************************************)
\* {tenant}/{sha256(user identifier)}/{product-or-folder id}/{file name}
KeyAsStated(d) ==
    d.tenant \o <<"/">> \o _hash_string(d.mobile_no) \o <<"/">> \o d.group
        \o <<"/">> \o d.file_name

LStrip(s, chars) ==
    IF \A k \in 1..Len(s) : s[k] \in chars THEN <<>>
    ELSE Slice(s, Least({k \in 1..Len(s) : s[k] \notin chars}), Len(s))

\* the same, the slashes and spaces in front of the digest's directory and
\* behind it removed
KeyTrimmed(d) ==
    LStrip(d.tenant \o <<"/">>, {"/", " "}) \o _hash_string(d.mobile_no)
        \o rstrip(<<"/">> \o d.group, {"/", " "}) \o <<"/">> \o d.file_name

\* nothing to trim: the tenant does not start, and the group does not end,
\* with a slash or a space, and neither is empty
Untrimmed(d) ==
    /\ d.tenant # <<>> /\ d.tenant[1] \notin {"/", " "}
    /\ d.group # <<>> /\ d.group[Len(d.group)] \notin {"/", " "}

SameButUser(d, e) ==
    /\ d.tenant = e.tenant /\ d.group = e.group /\ d.file_name = e.file_name
    /\ d.mobile_no # e.mobile_no

KeysTellUsersApart ==
    \A k, m \in 1..Len(derived) :
        /\ (derived[k].tenant = derived[m].tenant /\ derived[k].mobile_no = derived[m].mobile_no
              /\ derived[k].group = derived[m].group /\ derived[k].file_name = derived[m].file_name)
               => derived[k].key = derived[m].key
        /\ SameButUser(derived[k], derived[m]) => derived[k].key # derived[m].key

(***************************************************************************)
(* C8 as stated: the key is exactly {tenant}/{sha256(user)}/{group}/{file  *)
(* name}; equal inputs give equal keys, inputs that differ only in the     *)
(* user give different keys.  Refuted by a tenant that starts, or a group  *)
(* that ends, with a slash or a space, and by an empty tenant or group:    *)
(* _generate_key trims the directory.                                      *)
(***************************************************************************)
C8_Original ==
    /\ \A k \in 1..Len(derived) : derived[k].key = KeyAsStated(derived[k])
    /\ KeysTellUsersApart

(***************************************************************************)
(* C8 amended: the key is {tenant}/{sha256(user)}/{group} with its leading *)
(* and trailing slashes and spaces removed, then "/" and the file name; it *)
(* is exactly {tenant}/{sha256(user)}/{group}/{file name} when the tenant  *)
(* is non-empty and does not start, and the group is non-empty and does    *)
(* not end, with a slash or a space; equal inputs give equal keys, inputs  *)
(* that differ only in the user give different keys.                       *)
(***************************************************************************)
C8_DeterministicKey ==
    /\ \A k \in 1..Len(derived) :
          /\ derived[k].key = KeyTrimmed(derived[k])
          /\ Untrimmed(derived[k]) => derived[k].key = KeyAsStated(derived[k])
    /\ KeysTellUsersApart

\* two derivations that differ only in the user, with a tenant that is
\* trimmed, and a third input shape that is not
C8_Witness ==
    /\ Len(derived) = 2
    /\ SameButUser(derived[1], derived[2])
    /\ derived[1].tenant = <<"/", "t">>
    /\ derived[1].key # KeyAsStated(derived[1])
    /\ derived[1].key # derived[2].key

(***************************************************************************)
(* The inputs of the key of a store call, read off the request.            *)
(***************************************************************************)
\* the archive entry Pipeline A handled as the j-th file of its i-th folder
EntryOfFolderItem(r, item) ==
    LET namelist == request[r].zip_folder.content.namelist
        g == CHOOSE h \in Folders(r) : FolderRank(r, h) = item[1]
        files == FolderItems(r, g)
        k == CHOOSE m \in files : Cardinality({n \in files : n <= m}) = item[2]
    IN  namelist[k]

\* the product-or-folder id the call was made for
GroupOfCall(call) ==
    LET r == call.req
    IN  CASE request[r].pipeline = "A" -> parent_folder(EntryOfFolderItem(r, call.item))
          [] request[r].pipeline = "B" -> request[r].product.tmp_code
          [] request[r].pipeline = "C" -> request[r].products[call.item[1]].product_code

Blank(s) == \A k \in 1..Len(s) : s[k] \in {"/", " "}

(***************************************************************************)
(* C9  No storage key with a blank segment is constructed: every store     *)
(* call is made for a tenant, a user identifier and a product-or-folder id *)
(* that are present and not empty after trimming, and its key starts with  *)
(* the tenant segment.  Refuted: a posted tenant "" (or product code "")   *)
(* passes validation, nothing raises, and the write is issued under a key  *)
(* from which the segment has vanished.                                    *)
(***************************************************************************)
C9_NoBlankSegment ==
    \A k \in 1..Len(store) :
        LET r == store[k].req
            tenant == IF request[r].tenant = Missing THEN DefaultTenant ELSE request[r].tenant
        IN  /\ ~Blank(tenant)
            /\ request[r].user.mobile_no \notin {Missing, <<>>}
            /\ ~Blank(GroupOfCall(store[k]))
            /\ Slice(store[k].key, 1, Len(tenant) + 1) = tenant \o <<"/">>

(***************************************************************************)
(* Content type by extension, as the claim tables it.                      *)
(***************************************************************************)
\* the extension of a name: from the last dot of its base name on, nothing
\* when the base name has no dot after its first character
ExtensionOfName(name) ==
    LET base == SplitLast(name, "/")
        dots == {k \in 2..Len(base) : base[k] = "."}
    IN  IF dots = {} THEN <<>>
        ELSE Slice(base, CHOOSE k \in dots : \A m \in dots : m <= k, Len(base))

\* ext is word in some letter case
InAnyCase(ext, word) ==
    /\ Len(ext) = Len(word)
    /\ \A k \in 1..Len(ext) :
          \/ ext[k] = word[k]
          \/ ext[k] \in DOMAIN LowerOf /\ LowerOf[ext[k]] = word[k]

KindOfName(name) ==
    LET ext == ExtensionOfName(name)
    IN  IF InAnyCase(ext, <<".", "p", "d", "f">>) THEN <<"application", "/", "pdf">>
        ELSE IF InAnyCase(ext, <<".", "j", "p", "g">>) \/ InAnyCase(ext, <<".", "j", "p", "e", "g">>)
             THEN <<"image", "/", "jpeg">>
        ELSE IF InAnyCase(ext, <<".", "p", "n", "g">>) THEN <<"image", "/", "png">>
        ELSE <<"binary", "/", "octet-stream">>

UrlAsStated(region, key) ==
    IF region = <<>>
    THEN <<"https://", "test-bucket", ".s3.amazonaws.com/">> \o key
    ELSE <<"https://", "test-bucket", ".s3-">> \o region \o <<".amazonaws.com/">> \o key

C11_UrlShape ==
    \A k \in 1..Len(writes) :
        writes[k].out.returned # NoUrl =>
            writes[k].out.returned = UrlAsStated(writes[k].region, writes[k].out.s3_key)

(***************************************************************************)
(* The credentials the gate has to turn away.                              *)
(***************************************************************************)
Unauthenticated(r) ==
    LET header == authorization[r]
    IN  \/ ~header.present
        \/ header.scheme # "Bearer "
        \/ ~header.token.wellformed
        \/ header.token.key # "secret"
        \/ header.token.sub # "oaas"

NothingRan(r) ==
    /\ pc[r] \in {"idle", "done"}
    /\ http_gets[r] = <<>>
    /\ \A k \in 1..Len(store) : store[k].req # r
    /\ folder_urls[r] = EmptyDict

(***************************************************************************)
(* C12 as stated: a request whose bearer credential is missing, malformed, *)
(* wrongly signed or names another subject is answered HTTP 401 before any *)
(* pipeline step runs; no fetch and no store write occurs for it.  Refuted *)
(* by the request without Authorization header, which is answered 422.     *)
(***************************************************************************)
C12_Original ==
    \A r \in Reqs :
        (request[r] # NoRequest /\ Unauthenticated(r)) =>
            /\ NothingRan(r)
            /\ Finished(r) => response[r].status_code = 401

(***************************************************************************)
(* C12 amended: a request whose bearer credential is missing, malformed,   *)
(* wrongly signed or names another subject is rejected before any pipeline *)
(* step runs, with HTTP 422 when the Authorization header is absent and    *)
(* with HTTP 401 otherwise; no fetch and no store write occurs for it.     *)
(***************************************************************************)
C12_AuthGate ==
    \A r \in Reqs :
        (request[r] # NoRequest /\ Unauthenticated(r)) =>
            /\ NothingRan(r)
            /\ Finished(r) =>
                  /\ response[r].status_code = (IF authorization[r].present THEN 401 ELSE 422)
                  /\ response[r].s3_urls = EmptyDict

\* a well-formed upload request whose token is signed with another key was
\* answered 401
C12_Witness ==
    \E r \in Reqs :
        /\ request[r].pipeline = "B" /\ request[r].user.mobile_no # Missing
        /\ Len(request[r].product.images) = 1
        /\ authorization[r].scheme = "Bearer " /\ authorization[r].token.wellformed
        /\ authorization[r].token.key = "other"
        /\ Finished(r) /\ response[r].status_code = 401
        /\ NothingRan(r)

(***************************************************************************)
(* C13  An authenticated, well-formed request to /upload/oaas/files or     *)
(* /upload/oaas/files/v2 is answered HTTP 200 with its mapping whatever    *)
(* fetches, decodes, archives and store writes fail; HTTP 500 with a       *)
(* single message is the answer only when the service call raises, which   *)
(* happens only when Pipeline A cannot fetch or open its archive.          *)
(***************************************************************************)
C13_AlwaysOkOutsideFolder ==
    \A r \in Reqs :
        (get_current_user(authorization[r]) /\ Finished(r)) =>
            /\ Runs(r, "B") =>
                  /\ response[r].status_code = 200
                  /\ DOMAIN response[r].s3_urls = {request[r].product.tmp_code}
            /\ Runs(r, "C") =>
                  /\ response[r].status_code = 200
                  /\ DOMAIN response[r].s3_urls =
                         {request[r].products[p].product_code : p \in 1..Len(request[r].products)}
            /\ response[r].status_code = 500 =>
                  /\ Runs(r, "A") /\ ArchiveUnusable(r)
                  /\ response[r].s3_urls = EmptyDict /\ Len(response[r].detail) > 0

\* three image entries: the fetch of the first failed, the second is no
\* archive though declared one, the store refused the third; the answer is 200
C13_Witness ==
    \E r \in Reqs :
        /\ Runs(r, "B") /\ Finished(r)
        /\ Len(request[r].product.images) = 3
        /\ ~FetchedOk(r, 1)
        /\ FetchedOk(r, 2) /\ request[r].product.images[2].image_type = ZIP
        /\ ~request[r].product.images[2].content.is_zip
        /\ Called(r, <<3, 0>>) /\ ~Stored(r, <<3, 0>>)
        /\ response[r].status_code = 200
        /\ \A n \in 1..3 : ~IsUrl(response[r].s3_urls[request[r].product.tmp_code][n])

(***************************************************************************)
(* The part of Pipeline B's list that one image entry fills.               *)
(***************************************************************************)
\* the entries of an archive that are no directory and have a base name
FilesOfArchive(namelist) ==
    {j \in 1..Len(namelist) :
        /\ namelist[j] # <<>>
        /\ namelist[j][Len(namelist[j])] # "/"}

IsArchiveItem(r, i) ==
    /\ request[r].product.images[i].image_type = <<"application", "/", "zip">>
    /\ FetchedOk(r, i)

\* how many strings image entry i contributes
SharesOfImage(r, i) ==
    IF IsArchiveItem(r, i) /\ request[r].product.images[i].content.is_zip
    THEN Cardinality(FilesOfArchive(request[r].product.images[i].content.namelist))
    ELSE 1

\* the number of strings the entries before i contribute
SharesBefore(r, i) ==
    LET Sum[n \in 0..Len(request[r].product.images)] ==
            IF n = 0 THEN 0 ELSE Sum[n - 1] + SharesOfImage(r, n)
    IN  Sum[i - 1]

(***************************************************************************)
(* C14  In Pipeline B an entry declared an archive is expanded in place.   *)
(* A corrupt archive leaves exactly one error string for the whole entry;  *)
(* a valid one leaves, in archive order, exactly one string for each of    *)
(* its entries that is no directory and has a base name: the URL under the *)
(* entry's base name when it was stored, an error string that names the    *)
(* entry when it was not.  Neither a corrupt archive nor a failed          *)
(* contained file stops the files after it or the image entries after it.  *)
(***************************************************************************)
C14_ArchiveInPlace ==
    \A r \in Reqs :
        (Runs(r, "B") /\ Finished(r)) =>
            LET images == request[r].product.images
                list == response[r].s3_urls[request[r].product.tmp_code]
            IN  /\ response[r].status_code = 200
                /\ \A i \in 1..Len(images) : Fetched(r, i)
                /\ Len(list) = SharesBefore(r, Len(images) + 1)
                /\ \A i \in 1..Len(images) :
                      IsArchiveItem(r, i) =>
                          LET namelist == images[i].content.namelist
                              files == FilesOfArchive(namelist)
                              at == SharesBefore(r, i)
                          IN  IF ~images[i].content.is_zip
                              THEN /\ list[at + 1] = <<"Invalid ZIP file format: ">> \o images[i].url
                                   /\ \A j \in 0..MaxEntries + 2 : ~Called(r, <<i, j>>)
                              ELSE \A j \in files :
                                      LET n == Cardinality({m \in files : m <= j})
                                          entry == list[at + n]
                                      IN  /\ Cardinality(CallsOf(r, <<i, j>>)) <= 1
                                          /\ IF Stored(r, <<i, j>>)
                                             THEN /\ IsUrl(entry)
                                                  /\ SubSeq(entry, Len(entry) - Len(basename(namelist[j])),
                                                            Len(entry))
                                                         = <<"/">> \o basename(namelist[j])
                                             ELSE /\ ~IsUrl(entry)
                                                  /\ SubSeq(entry, 1, 1 + Len(namelist[j]))
                                                         = <<"Error processing file ">> \o namelist[j]

\* the archive b/, a/1.jpg, c.PNG followed by an image: a/1.jpg failed, c.PNG
\* and the image after the archive were stored
C14_Witness ==
    \E r \in Reqs :
        /\ Runs(r, "B") /\ Returned(r)
        /\ Len(request[r].product.images) = 2
        /\ IsArchiveItem(r, 1) /\ request[r].product.images[1].content.is_zip
        /\ Len(request[r].product.images[1].content.namelist) = 3
        /\ ~Stored(r, <<1, 2>>) /\ Stored(r, <<1, 3>>) /\ Stored(r, <<2, 0>>)
        /\ Len(response[r].s3_urls[request[r].product.tmp_code]) = 3
        /\ ~IsUrl(response[r].s3_urls[request[r].product.tmp_code][1])
        /\ IsUrl(response[r].s3_urls[request[r].product.tmp_code][2])
        /\ IsUrl(response[r].s3_urls[request[r].product.tmp_code][3])

(***************************************************************************)
(* C15  Nothing is retried inside a request: in one pipeline run the       *)
(* source of every item is fetched at most once and every item leads to at *)
(* most one store write attempt, successful or not; when the n entries of  *)
(* a Pipeline B request are all non-archive and all succeed, exactly n     *)
(* uploads were made.                                                      *)
(***************************************************************************)
GetsOf(r, i) == {k \in 1..Len(http_gets[r]) : http_gets[r][k].item = i}
UploadsOf(r) == {k \in 1..Len(store) : store[k].req = r}

C15_NoRetry ==
    \A r \in Reqs :
        /\ \A k \in 1..Len(http_gets[r]) : Cardinality(GetsOf(r, http_gets[r][k].item)) = 1
        /\ \A k \in UploadsOf(r) :
              {m \in UploadsOf(r) : store[m].item = store[k].item} = {k}
        /\ (Runs(r, "B") /\ Finished(r) /\ NoArchiveItems(r)
              /\ \A n \in 1..Len(request[r].product.images) :
                    IsUrl(response[r].s3_urls[request[r].product.tmp_code][n])) =>
                 Cardinality(UploadsOf(r)) = Len(request[r].product.images)

\* three image URLs, all of them downloaded and stored: three GETs and three
\* uploads were made
C15_Witness ==
    \E r \in Reqs :
        /\ Runs(r, "B") /\ Returned(r) /\ NoArchiveItems(r)
        /\ Len(request[r].product.images) = 3
        /\ \A n \in 1..3 : FetchedOk(r, n) /\ Stored(r, <<n, 0>>)
        /\ Len(http_gets[r]) = 3
        /\ Cardinality(UploadsOf(r)) = 3

(***************************************************************************)
(* C16  Pipelines A and C name what they store by the same policy: the     *)
(* original base name, "_" and the YYYYMMDD_HHMMSS timestamp, then the     *)
(* original extension, base name and extension being the split at the last *)
(* dot, the extension empty without a dot.  Refuted by Pipeline C, which   *)
(* splits at the first dot for the base name and appends "." and what      *)
(* follows the last dot: a.b.png becomes a_<timestamp>.png and n becomes   *)
(* n_<timestamp>.n.                                                        *)
(***************************************************************************)
NameAsStated(name, timestamp) ==
    LET dots == {k \in 1..Len(name) : name[k] = "."}
        last == CHOOSE k \in dots : \A m \in dots : m <= k
    IN  IF dots = {} THEN name \o <<"_">> \o timestamp
        ELSE SubSeq(name, 1, last - 1) \o <<"_">> \o timestamp \o SubSeq(name, last, Len(name))

\* the file name of the call's key is the stated name of the original at
\* some second of the run
NamedAsStated(call, original) ==
    \E t \in 0..MaxClock :
        SplitLast(call.key, "/") = NameAsStated(original, <<"20250101_12000", ToString(t)>>)

C16_SameNamingPolicy ==
    \A k \in 1..Len(store) :
        LET call == store[k]
            r == call.req
        IN  CASE request[r].pipeline = "A" ->
                    NamedAsStated(call, SplitLast(EntryOfFolderItem(r, call.item), "/"))
              [] request[r].pipeline = "C" ->
                    NamedAsStated(call,
                        request[r].products[call.item[1]].images[call.item[2]].image_name)
              [] OTHER -> TRUE

(***************************************************************************)
(* C17  The writers save_file and upload_file_bytes never swallow a        *)
(* failure of the backend: when the region lookup or the upload fails, the *)
(* call raises an error that carries the backend's cause and returns no    *)
(* URL; a URL is returned only after the upload call completed.            *)
(***************************************************************************)
C17_WriterRaises ==
    \A k \in 1..Len(writes) :
        writes[k].writer \in {"save_file", "upload_file_bytes"} =>
            LET out == writes[k].out
            IN  /\ writes[k].backend = "LocationError" =>
                      /\ out.returned = <<>> /\ out.raised = <<"NoSuchBucket">>
                      /\ ~out.uploaded
                /\ writes[k].backend = "UploadError" =>
                      out.returned = <<>> /\ out.raised = <<"AccessDenied">>
                /\ out.returned # <<>> =>
                      /\ writes[k].backend = "ok" /\ out.uploaded /\ out.raised = <<>>
                      /\ IsUrl(out.returned)

\* the store refused the upload of a save_file call, and the region lookup
\* of an upload_file_bytes call failed: both raised
C17_Witness ==
    /\ Len(writes) = 2
    /\ writes[1].writer = "save_file" /\ writes[1].backend = "UploadError"
    /\ writes[1].out.raised = S3ErrorText /\ writes[1].out.returned = NoUrl
    /\ writes[2].writer = "upload_file_bytes" /\ writes[2].backend = "LocationError"
    /\ writes[2].out.raised = LocationErrorText /\ writes[2].out.returned = NoUrl

(***************************************************************************)
(* C18  Within one request the items are processed strictly one after the  *)
(* other.  The fetches are issued in the order of the items; when the      *)
(* fetch of an item has been issued, every item before it has left its     *)
(* terminal outcome, so at most one item is under way; the store writes of *)
(* a request are issued in the order of its items, none for an item whose  *)
(* fetch has not been issued.                                              *)
(***************************************************************************)
\* item a comes before item b
Before(a, b) == a[1] < b[1] \/ (a[1] = b[1] /\ a[2] < b[2])

StoreInItemOrder(r) ==
    \A k, m \in UploadsOf(r) : k < m => Before(store[k].item, store[m].item)

C18_Sequential ==
    \A r \in Reqs :
        /\ StoreInItemOrder(r)
        /\ \A n \in 1..Len(http_gets[r]) : http_gets[r][n].item = n
        /\ (Runs(r, "B") /\ pc[r] # "idle") =>
              LET fetched == Len(http_gets[r])
                  list == folder_urls[r][request[r].product.tmp_code]
              IN  /\ fetched <= Len(request[r].product.images)
                  /\ \A k \in UploadsOf(r) : store[k].item[1] <= fetched
                  /\ fetched > 0 =>
                        /\ SharesBefore(r, fetched) <= Len(list)
                        /\ Len(list) <= SharesBefore(r, fetched + 1)
                  /\ fetched = 0 => list = <<>>
        /\ (Runs(r, "A") /\ UploadsOf(r) # {}) => Len(http_gets[r]) = 1

\* the second of three image entries has been fetched and not yet stored:
\* the first has left its entry, the third has not been fetched
C18_Witness ==
    \E r \in Reqs :
        /\ Runs(r, "B") /\ pc[r] = "B_save"
        /\ Len(request[r].product.images) = 3
        /\ Len(http_gets[r]) = 2
        /\ Len(folder_urls[r][request[r].product.tmp_code]) = 1
        /\ ~Called(r, <<2, 0>>)

(***************************************************************************)
(* C19  Two requests in flight on the process-wide service do not          *)
(* interfere: under every interleaving the mapping a request gets back has *)
(* the keys of its own groups only, and every list is what the request's   *)
(* own items, with the outcomes of its own fetches and store calls, leave  *)
(* when the request runs alone.                                            *)
(***************************************************************************)
OwnMapping(r) ==
    CASE Runs(r, "A") ->
            /\ DOMAIN response[r].s3_urls = Folders(r)
            /\ \A g \in Folders(r) : response[r].s3_urls[g] = EntriesOfFolder(r, g)
      [] Runs(r, "B") ->
            /\ DOMAIN response[r].s3_urls = {request[r].product.tmp_code}
            /\ response[r].s3_urls[request[r].product.tmp_code] = EntriesOfImages(r)
      [] Runs(r, "C") ->
            /\ DOMAIN response[r].s3_urls =
                   {request[r].products[p].product_code : p \in 1..Len(request[r].products)}
            /\ \A p \in 1..Len(request[r].products) :
                  response[r].s3_urls[request[r].products[p].product_code]
                      = EntriesOfProduct(r, p)

C19_NoInterference ==
    \A r \in Reqs :
        /\ Returned(r) => OwnMapping(r)
        /\ pc[r] = "idle" => folder_urls[r] = EmptyDict /\ http_gets[r] = <<>>
        /\ \A k \in 1..Len(store) : pc[store[k].req] # "idle"

\* the store calls of two requests alternate, and both requests have returned
C19_Witness ==
    /\ \A r \in Reqs : Returned(r)
    /\ Len(store) = 3
    /\ store[1].req = "r2" /\ store[2].req = "r1" /\ store[3].req = "r2"
    /\ store[1].ok /\ store[2].ok /\ ~store[3].ok
    /\ OwnMapping("r1") /\ OwnMapping("r2")

(***************************************************************************)
(* C20  In Pipeline C no successful upload is lost from the result: for    *)
(* every request, one that names a product code more than once included,   *)
(* the URL of every image that was written to the store stands in the      *)
(* returned mapping under its product code.  Refuted: the list of a code   *)
(* is set to [] again when a later product carries the same code.          *)
(***************************************************************************)
C20_NoUploadLost ==
    \A r \in Reqs :
        (Runs(r, "C") /\ Returned(r)) =>
            \A k \in UploadsOf(r) :
                store[k].ok =>
                    LET code == request[r].products[store[k].item[1]].product_code
                    IN  /\ code \in DOMAIN response[r].s3_urls
                        /\ \E n \in 1..Len(response[r].s3_urls[code]) :
                              response[r].s3_urls[code][n] = S3Url(bucket_location, store[k].key)

(***************************************************************************)
(* C21  In Pipeline A distinct entries of the archive of one request are   *)
(* written under distinct storage keys: two store calls of one request     *)
(* that both succeeded and were made for entries with different paths      *)
(* never carry the same key, so no entry overwrites another one.  Refuted: *)
(* the key is built from the innermost folder name, the base name and the  *)
(* second of the write, so x/a/1.jpg and a/1.jpg written within one second *)
(* land on one key.                                                        *)
(***************************************************************************)
C21_DistinctEntriesDistinctKeys ==
    \A k, m \in 1..Len(store) :
        LET r == store[k].req
        IN  ( /\ k < m
              /\ store[m].req = r
              /\ Runs(r, "A")
              /\ store[k].ok /\ store[m].ok
              /\ EntryOfFolderItem(r, store[k].item) # EntryOfFolderItem(r, store[m].item) )
            => store[k].key # store[m].key

=============================================================================
